---------------------------- MODULE Spec2Model ----------------------------
(***************************************************************************)
(* A model of the module validator of wasp (src/unnamed/part_001, the      *)
(* translation unit wasp/valid/validate.cc).  Every Validate overload is   *)
(* an operator that takes the validation Context as a record and returns   *)
(* the Context after the call together with the boolean the call returns.  *)
(* The actions apply these operators either directly (one public Validate  *)
(* call on one context) or as the steps of Validate(Module).               *)
(***************************************************************************)
EXTENDS Naturals, Integers, Sequences, FiniteSets, TLC

(***************************************************************************)
(* Bounds of the model.                                                    *)
(***************************************************************************)
\* Index immediates range over 0..MaxIndex.
MaxIndex == 1
\* No context list grows beyond MaxLen entries in the direct-call
\* specifications.
MaxLen == 3
\* A module validated by Validate(Module) holds at most MaxEntries entries.
MaxEntries == 3

(***************************************************************************)
(* Program constants.                                                      *)
(***************************************************************************)
\* constexpr Index kMaxPages = 65536
kMaxPages == 65536
\* constexpr Index kMaxElements = std::numeric_limits<Index>::max().  Index
\* is u32; the model's integers end at 2^31-1, which stands for the largest
\* Index: no limit value of the model exceeds it.
kMaxElements == 2147483647

(***************************************************************************)
(* Value domains.                                                          *)
(***************************************************************************)
Index == 0 .. MaxIndex

ValueType == {"I32", "I64", "F32", "F64", "Funcref", "Externref"}
ReferenceType == {"funcref", "externref"}
Mutability == {"Const", "Var"}
ExternalKind == {"Function", "Table", "Memory", "Global", "Event"}
FeatureName ==
  {"mutable_globals", "multi_value", "threads", "reference_types",
   "multi_memory"}

\* optional<T>: the empty sequence, or a sequence of one value.
nullopt == << >>
Some(v) == << v >>
has_value(o) == Len(o) = 1
Value(o) == o[1]
Optional(S) == {nullopt} \cup {Some(v) : v \in S}

\* ToValueType(ReferenceType): the value type of a reference type.
ToValueType(reftype) ==
  CASE reftype = "funcref" -> "Funcref"
    [] reftype = "externref" -> "Externref"

(***************************************************************************)
(* Features (wasp/base/features.h): the set of enabled features.           *)
(***************************************************************************)
mutable_globals_enabled(features) == "mutable_globals" \in features
multi_value_enabled(features) == "multi_value" \in features
threads_enabled(features) == "threads" \in features
reference_types_enabled(features) == "reference_types" \in features

(***************************************************************************)
(* The error sink.  context.errors holds the breadcrumb stack that the     *)
(* ErrorsContextGuards push and pop, and the errors reported since the     *)
(* sink was last emptied, each with the breadcrumbs it was reported under. *)
(***************************************************************************)
NoErrors == [stack |-> << >>, reported |-> << >>]

OnError(context, message) ==
  [context EXCEPT !.errors.reported =
     Append(@, [message |-> message, path |-> context.errors.stack])]

\* ErrorsContextGuard's constructor: push a breadcrumb.
PushContext(context, desc) ==
  [context EXCEPT !.errors.stack = Append(@, desc)]

\* ErrorsContextGuard's destructor, run on every exit path of the scope: r
\* is what the scope returns.
PopContext(r) ==
  [r EXCEPT !.context.errors.stack = SubSeq(@, 1, Len(@) - 1)]

\* What a Validate call hands back: the context after it, and its result.
Ret(context, valid) == [context |-> context, valid |-> valid]

\* The messages reported to the sink.
Messages(context) ==
  {context.errors.reported[i].message :
     i \in 1 .. Len(context.errors.reported)}

(***************************************************************************)
(* The validation Context after construction.                              *)
(***************************************************************************)
NewContext(features) ==
  [features |-> features,
   errors |-> NoErrors,
   types |-> << >>,
   functions |-> << >>,
   tables |-> << >>,
   memories |-> << >>,
   globals |-> << >>,
   events |-> << >>,
   element_segments |-> << >>,
   imported_function_count |-> 0,
   imported_global_count |-> 0,
   export_names |-> {},
   declared_data_count |-> nullopt,
   declared_functions |-> {},
   deferred_function_references |-> << >>]

(***************************************************************************)
(* bool ValidateIndex(index, max, desc, context)                           *)
(***************************************************************************)
\* Mutant: an index out of range is rejected and no error is reported.
ValidateIndexSilent(index, max, desc, context) ==
  IF index >= max
    THEN Ret(context, FALSE)
    ELSE Ret(context, TRUE)

ValidateIndex(index, max, desc, context) ==
  IF index >= max
    THEN Ret(OnError(context, "Invalid " \o desc), FALSE)
    ELSE Ret(context, TRUE)

(***************************************************************************)
(* bool Validate(const At<ValueType>& actual, ValueType expected, context) *)
(***************************************************************************)
ValidateValueType(actual, expected, context) ==
  IF expected # actual
    THEN Ret(OnError(context, "Expected value type"), FALSE)
    ELSE Ret(context, TRUE)

(***************************************************************************)
(* bool Validate(const At<ReferenceType>& actual, ReferenceType expected,  *)
(*               context)                                                  *)
(***************************************************************************)
ValidateReferenceType(actual, expected, context) ==
  IF actual # expected
    THEN Ret(OnError(context, "Expected element type"), FALSE)
    ELSE Ret(context, TRUE)

(***************************************************************************)
(* bool Validate(const At<binary::ConstantExpression>& value,              *)
(*               ConstantExpressionKind kind, ValueType expected_type,     *)
(*               Index max_global_index, Context& context)                 *)
(* An instruction is [opcode, index, reftype]; an opcode reads the         *)
(* immediate that belongs to it.                                           *)
(***************************************************************************)
ConstantExpressionKind == {"GlobalInit", "Other"}

\* The end of the function: valid &= Validate(actual_type, expected_type,
\* context); return valid;
ConstantExpressionType(valid, actual_type, expected_type, context) ==
  LET r == ValidateValueType(actual_type, expected_type, context)
  IN  Ret(r.context, valid /\ r.valid)

\* Mutant: the error of a mutable global is reported and valid is left true.
GlobalGetKeepsValid(instruction, expected_type, max_global_index, context) ==
  LET index == instruction.index
      r == ValidateIndex(index, max_global_index, "global index", context)
  IN  IF ~r.valid
        THEN Ret(r.context, FALSE)
        ELSE LET global == context.globals[index + 1]
             IN  ConstantExpressionType(TRUE, global.valtype, expected_type,
                   IF global.mut = "Var"
                     THEN OnError(r.context,
                            "A constant expression cannot contain a mutable global")
                     ELSE r.context)

\* Mutant: the index of global.get is checked against globals.size(), not
\* against max_global_index.
GlobalGetAnyGlobal(instruction, expected_type, max_global_index, context) ==
  LET index == instruction.index
      r == ValidateIndex(index, Len(context.globals), "global index", context)
  IN  IF ~r.valid
        THEN Ret(r.context, FALSE)
        ELSE LET global == context.globals[index + 1]
             IN  IF global.mut = "Var"
                   THEN ConstantExpressionType(
                          FALSE, global.valtype, expected_type,
                          OnError(r.context,
                            "A constant expression cannot contain a mutable global"))
                   ELSE ConstantExpressionType(
                          TRUE, global.valtype, expected_type, r.context)

\* case Opcode::GlobalGet
ConstantExpressionGlobalGet(instruction, expected_type, max_global_index, context) ==
  LET index == instruction.index
      r == ValidateIndex(index, max_global_index, "global index", context)
  IN  IF ~r.valid
        THEN Ret(r.context, FALSE)
        ELSE LET global == context.globals[index + 1]
                 actual_type == global.valtype
             IN  IF context.globals[index + 1].mut = "Var"
                   THEN ConstantExpressionType(
                          FALSE, actual_type, expected_type,
                          OnError(r.context,
                            "A constant expression cannot contain a mutable global"))
                   ELSE ConstantExpressionType(
                          TRUE, actual_type, expected_type, r.context)

\* case Opcode::RefFunc
ConstantExpressionRefFunc(instruction, kind, expected_type, context) ==
  LET index == instruction.index
  IN  IF kind = "GlobalInit"
        THEN Ret([context EXCEPT !.deferred_function_references =
                    Append(@, index)], TRUE)
        ELSE LET r == ValidateIndex(index, Len(context.functions),
                                    "func index", context)
             IN  IF ~r.valid
                   THEN Ret(r.context, FALSE)
                   ELSE ConstantExpressionType(
                          TRUE, "Funcref", expected_type, r.context)

ValidateConstantExpression(value, kind, expected_type, max_global_index, context) ==
  PopContext(
    LET c == PushContext(context, "constant_expression")
    IN  IF Len(value.instructions) # 1
          THEN Ret(OnError(c,
                 "A constant expression must be a single instruction"), FALSE)
          ELSE
            LET instruction == value.instructions[1]
                opcode == instruction.opcode
            IN  CASE opcode = "I32Const" ->
                       ConstantExpressionType(TRUE, "I32", expected_type, c)
                  [] opcode = "I64Const" ->
                       ConstantExpressionType(TRUE, "I64", expected_type, c)
                  [] opcode = "F32Const" ->
                       ConstantExpressionType(TRUE, "F32", expected_type, c)
                  [] opcode = "F64Const" ->
                       ConstantExpressionType(TRUE, "F64", expected_type, c)
                  [] opcode = "GlobalGet" ->
                       ConstantExpressionGlobalGet(
                         instruction, expected_type, max_global_index, c)
                  [] opcode = "RefNull" ->
                       ConstantExpressionType(
                         TRUE, ToValueType(instruction.reftype),
                         expected_type, c)
                  [] opcode = "RefFunc" ->
                       ConstantExpressionRefFunc(
                         instruction, kind, expected_type, c)
                  [] OTHER ->
                       Ret(OnError(c,
                         "Invalid instruction in constant expression"),
                         FALSE))

(***************************************************************************)
(* bool Validate(const At<binary::DataCount>& value, Context& context)     *)
(***************************************************************************)
ValidateDataCount(value, context) ==
  Ret([context EXCEPT !.declared_data_count = Some(value.count)], TRUE)

(***************************************************************************)
(* bool Validate(const At<binary::DataSegment>& value, Context& context)   *)
(***************************************************************************)
ValidateDataSegment(value, context) ==
  PopContext(
    LET c0 == PushContext(context, "data segment")
        r1 == IF has_value(value.memory_index)
                THEN ValidateIndex(Value(value.memory_index),
                                   Len(c0.memories), "memory index", c0)
                ELSE Ret(c0, TRUE)
        r2 == IF has_value(value.offset)
                THEN ValidateConstantExpression(
                       Value(value.offset), "Other", "I32",
                       Len(r1.context.globals), r1.context)
                ELSE Ret(r1.context, TRUE)
    IN  Ret(r2.context, r1.valid /\ r2.valid))

(***************************************************************************)
(* bool Validate(const At<binary::ElementExpression>& value,               *)
(*               ReferenceType reftype, Context& context)                  *)
(***************************************************************************)
ValidateElementExpression(value, reftype, context) ==
  PopContext(
    LET c == PushContext(context, "element expression")
    IN  IF Len(value.instructions) # 1
          THEN Ret(OnError(c,
                 "An element expression must be a single instruction"), FALSE)
          ELSE
            LET instruction == value.instructions[1]
                opcode == instruction.opcode
            IN  CASE opcode = "RefNull" ->
                       ValidateReferenceType("funcref", reftype, c)
                  [] opcode = "RefFunc" ->
                       LET index == instruction.index
                           r == ValidateIndex(index, Len(c.functions),
                                              "function index", c)
                           c1 == [r.context EXCEPT !.declared_functions =
                                    @ \cup {index}]
                           t == ValidateReferenceType("funcref", reftype, c1)
                       IN  Ret(t.context, r.valid /\ t.valid)
                  [] OTHER ->
                       Ret(OnError(c,
                         "Invalid instruction in element expression"),
                         FALSE))

(***************************************************************************)
(* bool Validate(const At<binary::ElementSegment>& value, Context& context)*)
(* The elements of a segment are [form |-> "indexes", kind, list] or       *)
(* [form |-> "expressions", elemtype, list].                               *)
(***************************************************************************)
has_indexes(value) == value.elements.form = "indexes"
has_expressions(value) == value.elements.form = "expressions"

\* ElementSegment::elemtype(): the reference type of the segment's elements.
elemtype(value) ==
  IF has_indexes(value) THEN "funcref" ELSE value.elements.elemtype

\* switch (elements.kind): the size of the context list of that kind.
ElementMaxIndex(kind, context) ==
  CASE kind = "Function" -> Len(context.functions)
    [] kind = "Table" -> Len(context.tables)
    [] kind = "Memory" -> Len(context.memories)
    [] kind = "Global" -> Len(context.globals)
    [] kind = "Event" -> Len(context.events)

\* Mutant: a listed function index is declared only when it is in range.
ElementIndexDeclaresValid(index, kind, max_index, r) ==
  LET v == ValidateIndex(index, max_index, "index", r.context)
      c == IF kind = "Function" /\ v.valid
             THEN [v.context EXCEPT !.declared_functions = @ \cup {index}]
             ELSE v.context
  IN  Ret(c, r.valid /\ v.valid)

\* One pass of: for (auto index : elements.list)
ElementIndex(index, kind, max_index, r) ==
  LET v == ValidateIndex(index, max_index, "index", r.context)
      c == IF kind = "Function"
             THEN [v.context EXCEPT !.declared_functions = @ \cup {index}]
             ELSE v.context
  IN  Ret(c, r.valid /\ v.valid)

RECURSIVE ElementIndexes(_, _, _, _)
ElementIndexes(list, kind, max_index, r) ==
  IF list = << >>
    THEN r
    ELSE ElementIndexes(Tail(list), kind, max_index,
                        ElementIndex(Head(list), kind, max_index, r))

\* for (const auto& expr : elements.list)
RECURSIVE ElementExpressions(_, _, _)
ElementExpressions(list, reftype, r) ==
  IF list = << >>
    THEN r
    ELSE LET v == ValidateElementExpression(Head(list), reftype, r.context)
         IN  ElementExpressions(Tail(list), reftype,
                                Ret(v.context, r.valid /\ v.valid))

\* if (value->table_index) ...
ElementSegmentTable(value, context) ==
  IF has_value(value.table_index)
    THEN ValidateIndex(Value(value.table_index), Len(context.tables), "table index", context)
    ELSE Ret(context, TRUE)

\* if (value->offset) ...
ElementSegmentOffset(value, context) ==
  IF has_value(value.offset)
    THEN ValidateConstantExpression(Value(value.offset), "GlobalInit", "I32", Len(context.globals), context)
    ELSE Ret(context, TRUE)

ValidateElementSegment(value, context) ==
  PopContext(
    LET c0 == PushContext(context, "element segment")
        c1 == [c0 EXCEPT !.element_segments = Append(@, elemtype(value))]
        r1 == ElementSegmentTable(value, c1)
        r2 == ElementSegmentOffset(value, r1.context)
        r == Ret(r2.context, r1.valid /\ r2.valid)
    IN  IF has_indexes(value)
          THEN ElementIndexes(value.elements.list, value.elements.kind,
                 ElementMaxIndex(value.elements.kind, r.context), r)
          ELSE IF has_expressions(value)
            THEN ElementExpressions(value.elements.list,
                                    value.elements.elemtype, r)
            ELSE r)

(***************************************************************************)
(* bool Validate(const At<binary::Export>& value, Context& context)        *)
(***************************************************************************)
\* The duplicate-name check and the insertion of the name.
ExportName(value, context) ==
  LET r == IF value.name \in context.export_names
             THEN Ret(OnError(context, "Duplicate export name"), FALSE)
             ELSE Ret(context, TRUE)
  IN  Ret([r.context EXCEPT !.export_names = @ \cup {value.name}], r.valid)

\* Mutant: a mutable global cannot be exported whatever the features are.
ExportGlobalAnyFeatures(value, context) ==
  LET r == ValidateIndex(value.index, Len(context.globals), "global index", context)
  IN  IF r.valid
        THEN IF context.globals[value.index + 1].mut = "Var"
               THEN Ret(OnError(r.context,
                      "Mutable globals cannot be exported"), FALSE)
               ELSE Ret(r.context, TRUE)
        ELSE Ret(r.context, FALSE)

\* case ExternalKind::Global
ExportGlobal(value, context) ==
  LET r == ValidateIndex(value.index, Len(context.globals), "global index", context)
  IN  IF r.valid
        THEN LET global == context.globals[value.index + 1]
             IN  IF global.mut = "Var"
                    /\ ~mutable_globals_enabled(context.features)
                   THEN Ret(OnError(r.context,
                          "Mutable globals cannot be exported"), FALSE)
                   ELSE Ret(r.context, TRUE)
        ELSE Ret(r.context, FALSE)

\* switch (value->kind)
ExportIndex(value, context) ==
  CASE value.kind = "Function" ->
         ValidateIndex(value.index, Len(context.functions), "function index", context)
    [] value.kind = "Table" ->
         ValidateIndex(value.index, Len(context.tables), "table index", context)
    [] value.kind = "Memory" ->
         ValidateIndex(value.index, Len(context.memories), "memory index", context)
    [] value.kind = "Global" -> ExportGlobal(value, context)
    [] value.kind = "Event" ->
         ValidateIndex(value.index, Len(context.events), "event index", context)

\* Mutant: the name of an export is inserted only when its index is valid.
ValidateExportInsertsValid(value, context) ==
  PopContext(
    LET c == PushContext(context, "export")
        r1 == IF value.name \in c.export_names
                THEN Ret(OnError(c, "Duplicate export name"), FALSE)
                ELSE Ret(c, TRUE)
        r2 == ExportIndex(value, r1.context)
        c2 == IF r2.valid
                THEN [r2.context EXCEPT !.export_names = @ \cup {value.name}]
                ELSE r2.context
    IN  Ret(c2, r1.valid /\ r2.valid))

ValidateExport(value, context) ==
  PopContext(
    LET c == PushContext(context, "export")
        r1 == ExportName(value, c)
        r2 == ExportIndex(value, r1.context)
    IN  Ret(r2.context, r1.valid /\ r2.valid))

(***************************************************************************)
(* bool Validate(const At<binary::EventType>& value, Context& context)     *)
(* bool Validate(const At<binary::Event>& value, Context& context)         *)
(***************************************************************************)
ValidateEventType(value, context) ==
  PopContext(
    LET c0 == PushContext(context, "event type")
        c1 == [c0 EXCEPT !.events = Append(@, value)]
        r == ValidateIndex(value.type_index, Len(c1.types), "event type index", c1)
    IN  IF ~r.valid
          THEN Ret(r.context, FALSE)
          ELSE LET entry == c1.types[value.type_index + 1]
               IN  IF entry.type.result_types # << >>
                     THEN Ret(OnError(r.context,
                            "Expected an empty exception result type"), FALSE)
                     ELSE Ret(r.context, TRUE))

ValidateEvent(value, context) ==
  PopContext(ValidateEventType(value.event_type,
                               PushContext(context, "event")))

(***************************************************************************)
(* bool Validate(const At<binary::Function>& value, Context& context)      *)
(***************************************************************************)
\* Mutant: a function is appended only when its type index is in range.
ValidateFunctionAppendsValid(value, context) ==
  PopContext(
    LET c0 == PushContext(context, "function")
        r == ValidateIndex(value.type_index, Len(c0.types), "function type index", c0)
    IN  IF r.valid
          THEN Ret([r.context EXCEPT !.functions = Append(@, value)], TRUE)
          ELSE r)

ValidateFunction(value, context) ==
  PopContext(
    LET c0 == PushContext(context, "function")
        c1 == [c0 EXCEPT !.functions = Append(@, value)]
    IN  ValidateIndex(value.type_index, Len(c1.types), "function type index", c1))

(***************************************************************************)
(* bool Validate(const At<binary::FunctionType>& value, Context& context)  *)
(***************************************************************************)
ValidateFunctionType(value, context) ==
  PopContext(
    LET c == PushContext(context, "function type")
    IN  IF Len(value.result_types) > 1 /\ ~multi_value_enabled(c.features)
          THEN Ret(OnError(c, "Expected result type count of 0 or 1"), FALSE)
          ELSE Ret(c, TRUE))

(***************************************************************************)
(* bool Validate(const At<GlobalType>& value, Context& context)            *)
(* bool Validate(const At<binary::Global>& value, Context& context)        *)
(***************************************************************************)
ValidateGlobalType(value, context) == Ret(context, TRUE)

\* Mutant: a global's initializer may use every global of the context.
GlobalInitAllGlobals(context) == Len(context.globals)

\* The bound on global.get in a global's initializer: only imported globals
\* can be used in a global's constant expression.
GlobalInitMaxGlobalIndex(context) == context.imported_global_count

ValidateGlobal(value, context) ==
  PopContext(
    LET c0 == PushContext(context, "global")
        c1 == [c0 EXCEPT !.globals = Append(@, value.global_type)]
        r1 == ValidateGlobalType(value.global_type, c1)
        r2 == ValidateConstantExpression(value.init, "GlobalInit",
                value.global_type.valtype,
                GlobalInitMaxGlobalIndex(r1.context), r1.context)
    IN  Ret(r2.context, r1.valid /\ r2.valid))

(***************************************************************************)
(* bool Validate(const At<Limits>& value, Index max, Context& context)     *)
(***************************************************************************)
\* Mutant: the checks of the maximum are an else-if chain after the check of
\* the minimum, so that one call reports one error at most.
ValidateLimitsFirstError(value, max, context) ==
  PopContext(
    LET c0 == PushContext(context, "limits")
    IN  IF value.min > max
          THEN Ret(OnError(c0, "Expected minimum to be <= bound"), FALSE)
          ELSE IF has_value(value.max) /\ Value(value.max) > max
            THEN Ret(OnError(c0, "Expected maximum to be <= bound"), FALSE)
            ELSE IF has_value(value.max) /\ value.min > Value(value.max)
              THEN Ret(OnError(c0, "Expected minimum to be <= maximum"), FALSE)
              ELSE Ret(c0, TRUE))

ValidateLimits(value, max, context) ==
  PopContext(
    LET c0 == PushContext(context, "limits")
        r1 == IF value.min > max
                THEN Ret(OnError(c0, "Expected minimum to be <= bound"), FALSE)
                ELSE Ret(c0, TRUE)
        r2 == IF has_value(value.max) /\ Value(value.max) > max
                THEN Ret(OnError(r1.context,
                       "Expected maximum to be <= bound"), FALSE)
                ELSE Ret(r1.context, TRUE)
        r3 == IF has_value(value.max) /\ value.min > Value(value.max)
                THEN Ret(OnError(r2.context,
                       "Expected minimum to be <= maximum"), FALSE)
                ELSE Ret(r2.context, TRUE)
    IN  Ret(r3.context, r1.valid /\ r2.valid /\ r3.valid))

(***************************************************************************)
(* bool Validate(const At<MemoryType>& value, Context& context)            *)
(***************************************************************************)
\* The check of a shared memory type.
MemoryTypeShared(value, r) ==
  IF value.limits.shared /\ ~threads_enabled(r.context.features)
    THEN Ret(OnError(r.context, "Memories cannot be shared"), FALSE)
    ELSE r

ValidateMemoryType(value, context) ==
  PopContext(
    LET c == PushContext(context, "memory type")
    IN  MemoryTypeShared(value, ValidateLimits(value.limits, kMaxPages, c)))

(***************************************************************************)
(* bool Validate(const At<binary::Memory>& value, Context& context)        *)
(***************************************************************************)
\* The check of the number of memories.
MemoryCount(value, r) ==
  IF Len(r.context.memories) > 1
    THEN Ret(OnError(r.context, "Too many memories, must be 1 or fewer"), FALSE)
    ELSE r

ValidateMemory(value, context) ==
  PopContext(
    LET c0 == PushContext(context, "memory")
        c1 == [c0 EXCEPT !.memories = Append(@, value.memory_type)]
    IN  MemoryCount(value, ValidateMemoryType(value.memory_type, c1)))

(***************************************************************************)
(* bool Validate(const At<TableType>& value, Context& context)             *)
(* bool Validate(const At<binary::Table>& value, Context& context)         *)
(***************************************************************************)
ValidateTableType(value, context) ==
  PopContext(
    LET c == PushContext(context, "table type")
        r == ValidateLimits(value.limits, kMaxElements, c)
    IN  IF value.limits.shared
          THEN Ret(OnError(r.context, "Tables cannot be shared"), FALSE)
          ELSE r)

\* Mutant: the number of tables is checked whatever the features are.
TableCountAnyFeatures(value, r) ==
  IF Len(r.context.tables) > 1
    THEN Ret(OnError(r.context, "Too many tables, must be 1 or fewer"), FALSE)
    ELSE r

\* The check of the number of tables.
TableCount(value, r) ==
  IF Len(r.context.tables) > 1
     /\ ~reference_types_enabled(r.context.features)
    THEN Ret(OnError(r.context, "Too many tables, must be 1 or fewer"), FALSE)
    ELSE r

ValidateTable(value, context) ==
  PopContext(
    LET c0 == PushContext(context, "table")
        c1 == [c0 EXCEPT !.tables = Append(@, value.table_type)]
    IN  TableCount(value, ValidateTableType(value.table_type, c1)))

(***************************************************************************)
(* bool Validate(const At<binary::TypeEntry>& value, Context& context)     *)
(***************************************************************************)
ValidateTypeEntry(value, context) ==
  PopContext(
    LET c0 == PushContext(context, "type entry")
        c1 == [c0 EXCEPT !.types = Append(@, value)]
    IN  ValidateFunctionType(value.type, c1))

(***************************************************************************)
(* bool Validate(const At<binary::Import>& value, Context& context)        *)
(* An import is [kind |-> "Function", index], [kind |-> "Table",           *)
(* table_type], [kind |-> "Memory", memory_type], [kind |-> "Global",      *)
(* global_type] or [kind |-> "Event", event_type].                         *)
(***************************************************************************)
\* case ExternalKind::Function
\* Mutant: the import of a function leaves imported_function_count alone.
ImportFunctionUncounted(value, context) ==
  ValidateFunction([type_index |-> value.index], context)

ImportFunction(value, context) ==
  LET r == ValidateFunction([type_index |-> value.index], context)
  IN  Ret([r.context EXCEPT !.imported_function_count = @ + 1], r.valid)

\* case ExternalKind::Global
ImportGlobal(value, context) ==
  LET c1 == [context EXCEPT !.globals = Append(@, value.global_type),
                            !.imported_global_count = @ + 1]
      r == ValidateGlobalType(value.global_type, c1)
  IN  IF value.global_type.mut = "Var"
         /\ ~mutable_globals_enabled(r.context.features)
        THEN Ret(OnError(r.context, "Mutable globals cannot be imported"), FALSE)
        ELSE r

ValidateImport(value, context) ==
  PopContext(
    LET c == PushContext(context, "import")
    IN  CASE value.kind = "Function" -> ImportFunction(value, c)
          [] value.kind = "Table" ->
               ValidateTable([table_type |-> value.table_type], c)
          [] value.kind = "Memory" ->
               ValidateMemory([memory_type |-> value.memory_type], c)
          [] value.kind = "Global" -> ImportGlobal(value, c)
          [] value.kind = "Event" ->
               ValidateEvent([event_type |-> value.event_type], c))

(***************************************************************************)
(* bool Validate(const At<binary::Start>& value, Context& context)         *)
(***************************************************************************)
\* Mutant: the results of the start function's type are not checked.
StartFunctionParams(function, context) ==
  IF function.type_index < Len(context.types)
       /\ Len(context.types[function.type_index + 1].type.param_types) # 0
    THEN Ret(OnError(context, "Expected start function to have 0 params"), FALSE)
    ELSE Ret(context, TRUE)

\* The checks of the start function's type: if (function.type_index <
\* context.types.size()) ...
StartFunctionType(function, context) ==
  IF function.type_index < Len(context.types)
    THEN LET type_entry == context.types[function.type_index + 1]
             r1 == IF Len(type_entry.type.param_types) # 0
                     THEN Ret(OnError(context,
                            "Expected start function to have 0 params"), FALSE)
                     ELSE Ret(context, TRUE)
             r2 == IF Len(type_entry.type.result_types) # 0
                     THEN Ret(OnError(r1.context,
                            "Expected start function to have 0 results"), FALSE)
                     ELSE Ret(r1.context, TRUE)
         IN  Ret(r2.context, r1.valid /\ r2.valid)
    ELSE Ret(context, TRUE)

\* Mutant: the early return on an invalid function index leaves the
\* breadcrumb of the start section on the stack.
ValidateStartKeepsContext(value, context) ==
  LET c == PushContext(context, "start")
      r == ValidateIndex(value.func_index, Len(c.functions), "function index", c)
  IN  IF ~r.valid
        THEN Ret(r.context, FALSE)
        ELSE PopContext(StartFunctionType(c.functions[value.func_index + 1],
                                          r.context))

ValidateStart(value, context) ==
  PopContext(
    LET c == PushContext(context, "start")
        r == ValidateIndex(value.func_index, Len(c.functions), "function index", c)
    IN  IF ~r.valid
          THEN Ret(r.context, FALSE)
          ELSE StartFunctionType(c.functions[value.func_index + 1],
                                 r.context))

(***************************************************************************)
(* bool Validate(const At<binary::Code>& value, Context& context)          *)
(* BeginCode and the validation of locals and instructions are not part of *)
(* this translation unit: a code entry carries what each of them returns.  *)
(***************************************************************************)
ValidateCode(value, context) ==
  LET r1 == IF value.begin_code
              THEN Ret(context, TRUE)
              ELSE Ret(OnError(context, "BeginCode failed"), FALSE)
      r2 == IF value.instructions
              THEN Ret(r1.context, TRUE)
              ELSE Ret(OnError(r1.context, "Invalid instruction"), FALSE)
  IN  Ret(r2.context, r1.valid /\ r2.valid)

(***************************************************************************)
(* bool EndModule(Context& context)                                        *)
(***************************************************************************)
\* Mutant: a deferred reference is checked against the functions of the
\* context, not against the declared functions.
EndModuleReferenceInRange(index, r) ==
  IF index >= Len(r.context.functions)
    THEN Ret(OnError(r.context, "Undeclared function reference"), FALSE)
    ELSE r

\* One pass of: for (auto index : context.deferred_function_references)
EndModuleReference(index, r) ==
  IF index \notin r.context.declared_functions
    THEN Ret(OnError(r.context, "Undeclared function reference"), FALSE)
    ELSE r

RECURSIVE EndModuleReferences(_, _)
EndModuleReferences(list, r) ==
  IF list = << >>
    THEN r
    ELSE EndModuleReferences(Tail(list), EndModuleReference(Head(list), r))

EndModule(context) ==
  EndModuleReferences(context.deferred_function_references,
                      Ret(context, TRUE))

(***************************************************************************)
(* template <typename T> bool ValidateKnownSection(values, context)        *)
(* bool Validate(const binary::Module& value, Context& context)            *)
(***************************************************************************)
\* The order in which Validate(Module) validates the sections.
Sections ==
  << "types", "imports", "functions", "tables", "memories", "globals",
     "events", "exports", "start", "element_segments", "data_count",
     "codes", "data_segments" >>

\* The sections held as optional<T>; the others are vectors.
OptionalSections == {"start", "data_count"}

\* valid &= Validate(value, context)
Accumulate(valid, returned) == valid /\ returned

\* Mutant: the loop of ValidateKnownSection breaks at the first value that
\* is not valid.
KnownSectionBreaks(todo, valid) == todo = 0 \/ ~valid

\* The loop of ValidateKnownSection ends when no value of the section is
\* left: todo is the number of values not yet visited.
KnownSectionDone(todo, valid) == todo = 0

(***************************************************************************)
(* The state.                                                              *)
(*   context   the validation Context; context.errors.reported holds the   *)
(*             errors reported by the last call, until the caller has read *)
(*             them                                                        *)
(*   before    the Context the last call was made on                       *)
(*   call      the last call, its operation and its argument, until the    *)
(*             caller has taken its result: NoCall then                    *)
(*   returned  what the last call returned                                 *)
(*   pc        the position of Validate(Module): "idle" before it is       *)
(*             called, the section being validated, "EndModule", "done"    *)
(*   todo      the values of the current section not yet validated         *)
(*   room      how many more entries the module may hold                   *)
(*   valid     the local variable valid of Validate(Module)                *)
(*   results   the booleans the per-entry calls and EndModule returned     *)
(*   unvisited the entries of the module that were never validated         *)
(*   data_segments  the size of the module's data section, 0 until         *)
(*             Validate(Module) has come to it                             *)
(***************************************************************************)
VARIABLES context, before, call, returned, pc, todo, room, valid, results, unvisited, data_segments

vars == << context, before, call, returned, pc, todo, room, valid, results, unvisited, data_segments >>
module == << pc, todo, room, valid, results, unvisited, data_segments >>

\* The context a call starts on: the errors of the call before it were read.
Fresh == [context EXCEPT !.errors.reported = << >>]

NoCall == [op |-> "none"]

InitWith(features) ==
  /\ context \in {NewContext(f) : f \in SUBSET features}
  /\ before = context
  /\ call = NoCall
  /\ returned = TRUE
  /\ pc = "idle"
  /\ todo = 0
  /\ room = MaxEntries
  /\ valid = TRUE
  /\ results = {}
  /\ unvisited = 0
  /\ data_segments = 0

\* The features that the validators of this translation unit read.
FeaturesRead ==
  {"mutable_globals", "multi_value", "threads", "reference_types"}

Init == InitWith(FeaturesRead)

\* The number of entities the context holds.
Entities ==
  Len(context.types) + Len(context.functions) + Len(context.tables)
    + Len(context.memories) + Len(context.globals) + Len(context.events)
    + Len(context.element_segments)
    + Len(context.deferred_function_references)

\* The caller takes what the last call returned and reads the errors it
\* reported.
Return ==
  /\ call # NoCall
  /\ call' = NoCall
  /\ context' = Fresh
  /\ before' = Fresh
  /\ returned' = TRUE
  /\ UNCHANGED module

\* Validate(Module) is not running and no call is waiting to be taken.
Idle == pc = "idle" /\ call = NoCall

\* A public Validate call (op, on value) made directly on the context, r
\* being what the call hands back.
Direct(op, value, r) ==
  /\ context' = r.context
  /\ before' = Fresh
  /\ call' = [op |-> op, value |-> value]
  /\ returned' = r.valid
  /\ UNCHANGED module

\* ValidateKnownSection is in the loop over the values of section.
InSection(section) ==
  /\ pc = section
  /\ call = NoCall
  /\ ~KnownSectionDone(todo, valid)
  /\ todo > 0

\* The same call made by ValidateKnownSection for the section's next value.
Entry(op, value, r) ==
  /\ context' = r.context
  /\ before' = Fresh
  /\ call' = [op |-> op, value |-> value]
  /\ returned' = r.valid
  /\ valid' = Accumulate(valid, r.valid)
  /\ results' = results \cup {r.valid}
  /\ todo' = todo - 1
  /\ UNCHANGED << pc, room, unvisited, data_segments >>

(***************************************************************************)
(* The arguments the calls are made with.                                  *)
(***************************************************************************)
\* Sequences over S of length lo..hi.
SeqOf(S, lo, hi) == UNION {[1 .. n -> S] : n \in lo .. hi}

Const(op) == [opcode |-> op]
GlobalGet(i) == [opcode |-> "GlobalGet", index |-> i]
RefNull(t) == [opcode |-> "RefNull", reftype |-> t]
RefFunc(i) == [opcode |-> "RefFunc", index |-> i]
Expr(instruction) == [instructions |-> << instruction >>]

Instructions ==
  {Const(op) : op \in {"I32Const", "I64Const", "F32Const", "F64Const", "Nop"}}
    \cup {GlobalGet(i) : i \in Index}
    \cup {RefNull(t) : t \in ReferenceType}
    \cup {RefFunc(i) : i \in Index}

\* Expressions of one instruction, of none and of two.
Expressions ==
  {Expr(i) : i \in Instructions}
    \cup {[instructions |-> << >>],
          [instructions |-> << Const("I32Const"), Const("I32Const") >>]}

FunctionTypes ==
  [param_types : {<< >>, << "I32" >>},
   result_types : {<< >>, << "I32" >>, << "I32", "I32" >>}]
TypeEntries == [type : FunctionTypes]
Functions == [type_index : Index]

LimitValues == {0, 1, kMaxPages + 1, kMaxPages + 2}
Limits == [min : LimitValues, max : Optional(LimitValues), shared : BOOLEAN]
MemoryTypes == [limits : Limits]
Memories == [memory_type : MemoryTypes]
TableTypes == [limits : Limits, elemtype : ReferenceType]
Tables == [table_type : TableTypes]

GlobalTypes == [valtype : ValueType, mut : Mutability]
Globals == [global_type : GlobalTypes, init : Expressions]
EventTypes == [type_index : Index]
Events == [event_type : EventTypes]

FunctionImports == {[kind |-> "Function", index |-> i] : i \in Index}
TableImports == {[kind |-> "Table", table_type |-> t] : t \in TableTypes}
MemoryImports == {[kind |-> "Memory", memory_type |-> t] : t \in MemoryTypes}
GlobalImports == {[kind |-> "Global", global_type |-> t] : t \in GlobalTypes}
EventImports == {[kind |-> "Event", event_type |-> t] : t \in EventTypes}

Names == {"a", "b"}
Exports == [kind : ExternalKind, name : Names, index : Index]
Starts == [func_index : Index]
DataCounts == [count : 0 .. MaxIndex]
Codes == [begin_code : BOOLEAN, instructions : BOOLEAN]

\* A segment is active (a table or memory index and an offset) or not.
Placements(offsets) ==
  {[index |-> nullopt, offset |-> nullopt]}
    \cup {[index |-> Some(i), offset |-> Some(e)] : i \in Index, e \in offsets}

IndexElements(lists) ==
  {[form |-> "indexes", kind |-> k, list |-> l] : k \in ExternalKind, l \in lists}
ExpressionElements(lists) ==
  {[form |-> "expressions", elemtype |-> t, list |-> l] : t \in ReferenceType, l \in lists}

ElementSegmentsOf(offsets, elements) ==
  {[table_index |-> p.index, offset |-> p.offset, elements |-> e] : p \in Placements(offsets), e \in elements}
DataSegmentsOf(offsets) ==
  {[memory_index |-> p.index, offset |-> p.offset] : p \in Placements(offsets)}

(***************************************************************************)
(* The entries of the modules that Validate(Module) is run on: for each    *)
(* section a few entries, valid and invalid ones.                          *)
(***************************************************************************)
NoLimits == [min |-> 0, max |-> nullopt, shared |-> FALSE]
SharedLimits == [min |-> 0, max |-> nullopt, shared |-> TRUE]
Global(valtype, mut, instruction) ==
  [global_type |-> [valtype |-> valtype, mut |-> mut], init |-> Expr(instruction)]

ModuleTypes ==
  {[type |-> [param_types |-> << >>, result_types |-> << >>]],
   [type |-> [param_types |-> << "I32" >>, result_types |-> << "I32", "I32" >>]]}
ModuleImports ==
  {[kind |-> "Function", index |-> 0],
   [kind |-> "Global", global_type |-> [valtype |-> "I32", mut |-> "Var"]],
   [kind |-> "Global", global_type |-> [valtype |-> "I32", mut |-> "Const"]],
   [kind |-> "Memory", memory_type |-> [limits |-> NoLimits]]}
ModuleFunctions == Functions
ModuleTables ==
  {[table_type |-> [limits |-> l, elemtype |-> "funcref"]] : l \in {NoLimits, SharedLimits}}
ModuleMemories == {[memory_type |-> [limits |-> l]] : l \in {NoLimits, SharedLimits}}
ModuleGlobals ==
  {Global("I32", "Var", Const("I32Const")),
   Global("I32", "Const", GlobalGet(0)),
   Global("Funcref", "Const", RefFunc(0)),
   Global("I32", "Const", RefFunc(1))}
ModuleEvents == {[event_type |-> [type_index |-> 0]]}
ModuleExports ==
  {[kind |-> "Function", name |-> "a", index |-> 0],
   [kind |-> "Global", name |-> "a", index |-> 0],
   [kind |-> "Function", name |-> "b", index |-> 1]}
ModuleStarts == Starts
ModuleElementSegments ==
  {[table_index |-> nullopt, offset |-> nullopt,
    elements |-> [form |-> "indexes", kind |-> "Function", list |-> << 0 >>]],
   [table_index |-> Some(0), offset |-> Some(Expr(GlobalGet(0))),
    elements |-> [form |-> "expressions", elemtype |-> "funcref",
                  list |-> << Expr(RefFunc(1)) >>]]}
ModuleDataCounts == DataCounts
ModuleCodes == {[begin_code |-> TRUE, instructions |-> b] : b \in BOOLEAN}
ModuleDataSegments ==
  {[memory_index |-> nullopt, offset |-> nullopt],
   [memory_index |-> Some(0), offset |-> Some(Expr(GlobalGet(0)))]}

(***************************************************************************)
(* Validate(Module): the call, the steps of its sections, EndModule.       *)
(***************************************************************************)
\* The number of values of a section: a vector's size, or whether an
\* optional section is present.
SectionSizes(section, n) ==
  {k \in 0 .. n : section \in OptionalSections => k <= 1}

\* Validate(Module) is called and turns to the first section.
BeginModule ==
  /\ pc = "idle"
  /\ call = NoCall
  /\ pc' = Sections[1]
  /\ \E n \in SectionSizes(Sections[1], room) :
       /\ todo' = n
       /\ room' = room - n
  /\ valid' = TRUE
  /\ UNCHANGED << context, before, call, returned, results, unvisited, data_segments >>

\* ValidateKnownSection returns and Validate(Module) turns to the next
\* section that holds a value (the calls of ValidateKnownSection on the empty
\* sections in between visit nothing), or to EndModule when none is left.
NextSection ==
  /\ call = NoCall
  /\ \E i \in 1 .. Len(Sections) :
       /\ pc = Sections[i]
       /\ KnownSectionDone(todo, valid)
       /\ unvisited' = unvisited + todo
       /\ \/ \E j \in i + 1 .. Len(Sections) :
             \E n \in SectionSizes(Sections[j], room) \ {0} :
               /\ pc' = Sections[j]
               /\ todo' = n
               /\ room' = room - n
               /\ data_segments' =
                    IF Sections[j] = "data_segments" THEN n ELSE data_segments
          \/ /\ pc' = "EndModule"
             /\ todo' = 0
             /\ room' = room
             /\ UNCHANGED data_segments
  /\ UNCHANGED << context, before, call, returned, valid, results >>

TypeEntryStep ==
  /\ InSection("types")
  /\ \E value \in ModuleTypes :
       Entry("TypeEntry", value, ValidateTypeEntry(value, Fresh))
ImportStep ==
  /\ InSection("imports")
  /\ \E value \in ModuleImports :
       Entry("Import", value, ValidateImport(value, Fresh))
FunctionStep ==
  /\ InSection("functions")
  /\ \E value \in ModuleFunctions :
       Entry("Function", value, ValidateFunction(value, Fresh))
TableStep ==
  /\ InSection("tables")
  /\ \E value \in ModuleTables :
       Entry("Table", value, ValidateTable(value, Fresh))
MemoryStep ==
  /\ InSection("memories")
  /\ \E value \in ModuleMemories :
       Entry("Memory", value, ValidateMemory(value, Fresh))
GlobalStep ==
  /\ InSection("globals")
  /\ \E value \in ModuleGlobals :
       Entry("Global", value, ValidateGlobal(value, Fresh))
EventStep ==
  /\ InSection("events")
  /\ \E value \in ModuleEvents :
       Entry("Event", value, ValidateEvent(value, Fresh))
ExportStep ==
  /\ InSection("exports")
  /\ \E value \in ModuleExports :
       Entry("Export", value, ValidateExport(value, Fresh))
StartStep ==
  /\ InSection("start")
  /\ \E value \in ModuleStarts :
       Entry("Start", value, ValidateStart(value, Fresh))
ElementSegmentStep ==
  /\ InSection("element_segments")
  /\ \E value \in ModuleElementSegments :
       Entry("ElementSegment", value, ValidateElementSegment(value, Fresh))
DataCountStep ==
  /\ InSection("data_count")
  /\ \E value \in ModuleDataCounts :
       Entry("DataCount", value, ValidateDataCount(value, Fresh))
CodeStep ==
  /\ InSection("codes")
  /\ \E value \in ModuleCodes :
       Entry("Code", value, ValidateCode(value, Fresh))
DataSegmentStep ==
  /\ InSection("data_segments")
  /\ \E value \in ModuleDataSegments :
       Entry("DataSegment", value, ValidateDataSegment(value, Fresh))

\* valid &= EndModule(context); return valid;
EndModuleStep ==
  /\ pc = "EndModule"
  /\ call = NoCall
  /\ LET r == EndModule(Fresh)
     IN  /\ context' = r.context
         /\ before' = Fresh
         /\ call' = [op |-> "EndModule"]
         /\ returned' = r.valid
         /\ valid' = Accumulate(valid, r.valid)
         /\ results' = results \cup {r.valid}
  /\ pc' = "done"
  /\ UNCHANGED << todo, room, unvisited, data_segments >>

Next ==
  \/ BeginModule
  \/ NextSection
  \/ TypeEntryStep
  \/ ImportStep
  \/ FunctionStep
  \/ TableStep
  \/ MemoryStep
  \/ GlobalStep
  \/ EventStep
  \/ ExportStep
  \/ StartStep
  \/ ElementSegmentStep
  \/ DataCountStep
  \/ CodeStep
  \/ DataSegmentStep
  \/ EndModuleStep
  \/ Return

Spec == Init /\ [][Next]_vars

(***************************************************************************)
(* The public Validate overloads called directly on one context, each with *)
(* arguments from a given set.  A call that adds an entity to the context  *)
(* is made while the context holds fewer than MaxLen entities.             *)
(***************************************************************************)
TypeEntryCall(values) ==
  /\ Idle
  /\ Entities < MaxLen
  /\ \E value \in values :
       Direct("TypeEntry", value, ValidateTypeEntry(value, Fresh))

ImportCall(values) ==
  /\ Idle
  /\ Entities < MaxLen
  /\ \E value \in values :
       Direct("Import", value, ValidateImport(value, Fresh))

FunctionCall(values) ==
  /\ Idle
  /\ Entities < MaxLen
  /\ \E value \in values :
       Direct("Function", value, ValidateFunction(value, Fresh))

MemoryCall(values) ==
  /\ Idle
  /\ Entities < MaxLen
  /\ \E value \in values :
       Direct("Memory", value, ValidateMemory(value, Fresh))

MemoryTypeCall(values) ==
  /\ Idle
  /\ \E value \in values :
       Direct("MemoryType", value, ValidateMemoryType(value, Fresh))

GlobalCall(values) ==
  /\ Idle
  /\ Entities < MaxLen
  /\ \E value \in values :
       Direct("Global", value, ValidateGlobal(value, Fresh))

ExportCall(values) ==
  /\ Idle
  /\ \E value \in values :
       Direct("Export", value, ValidateExport(value, Fresh))

StartCall(values) ==
  /\ Idle
  /\ \E value \in values :
       Direct("Start", value, ValidateStart(value, Fresh))

ElementSegmentCall(values) ==
  /\ Idle
  /\ Entities < MaxLen
  /\ \E value \in values :
       Direct("ElementSegment", value, ValidateElementSegment(value, Fresh))

DataSegmentCall(values) ==
  /\ Idle
  /\ \E value \in values :
       Direct("DataSegment", value, ValidateDataSegment(value, Fresh))

\* Validate(ConstantExpression) with the bounds on global.get that its
\* callers pass: imported_global_count and globals.size().
ConstantExpressionCall(values) ==
  /\ Idle
  /\ Entities < MaxLen
  /\ \E e \in values, kind \in ConstantExpressionKind, expected_type \in ValueType,
        max_global_index \in {context.imported_global_count, Len(context.globals)} :
       Direct("ConstantExpression",
              [expression |-> e, kind |-> kind, expected_type |-> expected_type,
               max_global_index |-> max_global_index],
              ValidateConstantExpression(e, kind, expected_type, max_global_index, Fresh))

(***************************************************************************)
(* Exports validated on one context that holds functions and imports.      *)
(***************************************************************************)
ExportImports ==
  {[kind |-> "Table", table_type |-> [limits |-> NoLimits, elemtype |-> "funcref"]],
   [kind |-> "Memory", memory_type |-> [limits |-> NoLimits]],
   [kind |-> "Event", event_type |-> [type_index |-> 0]]}
    \cup {[kind |-> "Global", global_type |-> [valtype |-> "I32", mut |-> m]] : m \in Mutability}

\* The functions of the first type entry.
FirstTypeFunctions == {[type_index |-> 0]}

NextExport ==
  \/ FunctionCall(FirstTypeFunctions)
  \/ ImportCall(ExportImports)
  \/ ExportCall(Exports)
  \/ Return

SpecExport == InitWith({"mutable_globals"}) /\ [][NextExport]_vars

(***************************************************************************)
(* Constant expressions: validated directly, as global initializers and as *)
(* the offsets of element and data segments.                               *)
(***************************************************************************)
ConstGlobalTypes == [valtype : {"I32", "Funcref"}, mut : Mutability]
ConstImports ==
  {[kind |-> "Global", global_type |-> t] : t \in ConstGlobalTypes}
    \cup {[kind |-> "Table", table_type |-> [limits |-> NoLimits, elemtype |-> "funcref"]]}
ConstGlobals == [global_type : ConstGlobalTypes, init : Expressions]
ConstElements ==
  {[form |-> "indexes", kind |-> "Function", list |-> << >>]}
ConstElementSegments == ElementSegmentsOf(Expressions, ConstElements)
ConstDataSegments == DataSegmentsOf(Expressions)

NextConst ==
  \/ ImportCall(ConstImports)
  \/ FunctionCall(FirstTypeFunctions)
  \/ GlobalCall(ConstGlobals)
  \/ ElementSegmentCall(ConstElementSegments)
  \/ DataSegmentCall(ConstDataSegments)
  \/ ConstantExpressionCall(Expressions)
  \/ Return

SpecConst == InitWith({"mutable_globals"}) /\ [][NextConst]_vars

(***************************************************************************)
(* Memories and memory types.                                              *)
(***************************************************************************)
SomeLimits == [min : {0, kMaxPages + 1}, max : Optional({1}), shared : BOOLEAN]
SomeMemoryTypes == [limits : SomeLimits]

SomeMemories == [memory_type : SomeMemoryTypes]
SomeMemoryImports ==
  {[kind |-> "Memory", memory_type |-> t] : t \in SomeMemoryTypes}

NextMemory ==
  \/ MemoryCall(SomeMemories)
  \/ ImportCall(SomeMemoryImports)
  \/ MemoryTypeCall(MemoryTypes)
  \/ Return

SpecMemory == InitWith({"threads", "multi_memory"}) /\ [][NextMemory]_vars

(***************************************************************************)
(* The start function.                                                     *)
(***************************************************************************)
NextStart ==
  \/ TypeEntryCall(TypeEntries)
  \/ FunctionCall(Functions)
  \/ ImportCall(FunctionImports)
  \/ StartCall(Starts)
  \/ Return

SpecStart == InitWith({"multi_value"}) /\ [][NextStart]_vars

(***************************************************************************)
(* What the properties read off a state.                                   *)
(***************************************************************************)
Range(seq) == {seq[i] : i \in 1 .. Len(seq)}

\* The last call reported message.
Reported(message) == message \in Messages(context)

\* The last call reported no error under a breadcrumb desc.
NoErrorUnder(desc) ==
  \A i \in 1 .. Len(context.errors.reported) :
    desc \notin Range(context.errors.reported[i].path)

IsOne(expression, opcode) ==
  /\ Len(expression.instructions) = 1
  /\ expression.instructions[1].opcode = opcode

\* The index immediate of the single instruction of an expression.
IndexOf(expression) == expression.instructions[1].index

TooManyMemories == "Too many memories, must be 1 or fewer"
MutableGlobalInConstExpr == "A constant expression cannot contain a mutable global"
UndeclaredFunctionRef == "Undeclared function reference"
DuplicateExport == "Duplicate export name"
TypeMismatch == "Expected value type"

(***************************************************************************)
(* C1.  Validate(Module) never stops early: no entry of any section is     *)
(* left unvisited whatever the entries before it returned, EndModule runs  *)
(* after the last section, and the result is true if and only if every     *)
(* per-entry Validate call and EndModule returned true.                    *)
(***************************************************************************)
C1_ModuleValidatesEveryEntry ==
  /\ unvisited = 0
  /\ valid <=> (FALSE \notin results)
  /\ pc = "done" => /\ todo = 0
                    /\ results # {}
                    /\ call \in {NoCall, [op |-> "EndModule"]}

\* A module of MaxEntries entries, one of them invalid: EndModule has run
\* and returned true, and the result is false.
C1_Witness ==
  /\ pc = "done"
  /\ call.op = "EndModule"
  /\ returned
  /\ ~valid
  /\ room = 0
  /\ results = {TRUE, FALSE}

(***************************************************************************)
(* C2.  An export gets the duplicate-name error, and is rejected, if and   *)
(* only if its name is in export_names, and export_names holds exactly the *)
(* names of the exports validated before: every Validate(Export) inserts   *)
(* its name, valid or not and whatever its kind and index, and no other    *)
(* call changes the set.                                                   *)
(***************************************************************************)
C2_DuplicateExportNames ==
  /\ call.op = "Export" =>
       /\ Reported(DuplicateExport) <=> call.value.name \in before.export_names
       /\ call.value.name \in before.export_names => ~returned
       /\ context.export_names = before.export_names \cup {call.value.name}
  /\ call.op # "Export" => context.export_names = before.export_names

\* An export of a global that is in range, rejected only for its name.
C2_Witness ==
  /\ call.op = "Export"
  /\ call.value.kind = "Global"
  /\ call.value.index < Len(context.globals)
  /\ ~returned
  /\ Messages(context) = {DuplicateExport}

(***************************************************************************)
(* C3.  With kind GlobalInit, Validate(ConstantExpression) returns false   *)
(* for every global.get i whose target global i is mutable: called         *)
(* directly with any expected type, for the initializer of a global and    *)
(* for the offset of an element segment, the target imported or not.       *)
(***************************************************************************)
C3_MutableGlobalRejected ==
  /\ ( /\ call.op = "ConstantExpression"
       /\ call.value.kind = "GlobalInit"
       /\ IsOne(call.value.expression, "GlobalGet")
       /\ IndexOf(call.value.expression) < Len(before.globals)
       /\ before.globals[IndexOf(call.value.expression) + 1].mut = "Var" )
     => ~returned
  /\ ( /\ call.op = "Global"
       /\ IsOne(call.value.init, "GlobalGet")
       /\ IndexOf(call.value.init) < Len(context.globals)
       /\ context.globals[IndexOf(call.value.init) + 1].mut = "Var" )
     => ~returned
  /\ ( /\ call.op = "ElementSegment"
       /\ has_value(call.value.offset)
       /\ IsOne(Value(call.value.offset), "GlobalGet")
       /\ IndexOf(Value(call.value.offset)) < Len(context.globals)
       /\ context.globals[IndexOf(Value(call.value.offset)) + 1].mut = "Var" )
     => ~returned /\ ~NoErrorUnder("constant_expression")

\* A global.get of a mutable global, in range and of the expected type:
\* rejected for the mutability alone.
C3_Witness ==
  /\ call.op = "ConstantExpression"
  /\ call.value.kind = "GlobalInit"
  /\ IsOne(call.value.expression, "GlobalGet")
  /\ IndexOf(call.value.expression) < call.value.max_global_index
  /\ before.globals[IndexOf(call.value.expression) + 1].mut = "Var"
  /\ ~returned
  /\ Messages(context) = {MutableGlobalInConstExpr}

(***************************************************************************)
(* C4.  A ref.func i in a global initializer is appended to the deferred   *)
(* references and not checked then; element segments alone declare         *)
(* functions; EndModule returns false, and reports an undeclared function  *)
(* reference, if and only if some deferred index is not declared.  So at   *)
(* the end of Validate(Module) a module whose only deferred reference is   *)
(* function 0 is rejected when function 0 is not declared, and gets no     *)
(* such error when an element segment declared it.                         *)
(***************************************************************************)
C4_DeferredFunctionReferences ==
  /\ (call.op = "Global" /\ IsOne(call.value.init, "RefFunc")) =>
       /\ context.deferred_function_references =
            Append(before.deferred_function_references, IndexOf(call.value.init))
       /\ Messages(context) = {}
  /\ call.op \notin {"none", "ElementSegment"} =>
       context.declared_functions = before.declared_functions
  /\ ( /\ call.op = "ElementSegment"
       /\ has_indexes(call.value)
       /\ call.value.elements.kind = "Function" ) =>
       context.declared_functions =
         before.declared_functions \cup Range(call.value.elements.list)
  /\ call.op = "EndModule" =>
       /\ pc = "done"
       /\ returned <=>
            Range(before.deferred_function_references) \subseteq before.declared_functions
       /\ ~returned <=> Reported(UndeclaredFunctionRef)
       /\ ~returned => ~valid
       /\ ( /\ Range(context.deferred_function_references) = {0}
            /\ 0 \notin context.declared_functions ) => ~valid
       /\ ( /\ Range(context.deferred_function_references) = {0}
            /\ 0 \in context.declared_functions ) => ~Reported(UndeclaredFunctionRef)

\* A module with a global initialized by ref.func 0 and an element segment
\* that lists function 0: EndModule reports nothing.
C4_Witness ==
  /\ pc = "done"
  /\ call.op = "EndModule"
  /\ context.deferred_function_references = << 0 >>
  /\ 0 \in context.declared_functions
  /\ returned
  /\ Messages(context) = {}

(***************************************************************************)
(* The type the single instruction of a constant expression produces, the  *)
(* globals being those of ctx; "none" when there is no such type.          *)
(***************************************************************************)
ProducedType(expression, ctx) ==
  IF Len(expression.instructions) # 1
    THEN "none"
    ELSE LET instruction == expression.instructions[1]
         IN  CASE instruction.opcode = "I32Const" -> "I32"
               [] instruction.opcode = "I64Const" -> "I64"
               [] instruction.opcode = "F32Const" -> "F32"
               [] instruction.opcode = "F64Const" -> "F64"
               [] instruction.opcode = "GlobalGet" ->
                    IF instruction.index < Len(ctx.globals)
                      THEN ctx.globals[instruction.index + 1].valtype
                      ELSE "none"
               [] instruction.opcode = "RefNull" -> ToValueType(instruction.reftype)
               [] instruction.opcode = "RefFunc" -> "Funcref"
               [] OTHER -> "none"

\* The last call validated an offset and reported nothing about it.
OffsetAccepted ==
  /\ call.op \in {"ElementSegment", "DataSegment"}
  /\ has_value(call.value.offset)
  /\ NoErrorUnder("constant_expression")

(***************************************************************************)
(* C5.  Whenever Validate(ConstantExpression) returns true, the type its   *)
(* single instruction produces equals the expected type, for every kind:   *)
(* called directly, for the initializer of a global (expected: the         *)
(* global's value type) and for the offset of a segment (expected: I32).   *)
(* A global of type I32 initialized by ref.func and an element segment     *)
(* whose offset is ref.func are therefore rejected.                        *)
(***************************************************************************)
C5_ProducedTypeIsExpected ==
  /\ (call.op = "ConstantExpression" /\ returned) =>
       ProducedType(call.value.expression, before) = call.value.expected_type
  /\ (call.op = "Global" /\ returned) =>
       ProducedType(call.value.init, context) = call.value.global_type.valtype
  /\ OffsetAccepted =>
       ProducedType(Value(call.value.offset), context) = "I32"

(***************************************************************************)
(* C6.  Where global.get i is accepted.  As claimed: in the initializer of *)
(* a global and in the offset of an element segment only if                *)
(* i < imported_global_count, in the offset of a data segment only if      *)
(* i < globals.size().                                                     *)
(***************************************************************************)
C6_GlobalInitOnlyImportedGlobals ==
  /\ ( /\ call.op = "Global"
       /\ IsOne(call.value.init, "GlobalGet")
       /\ returned )
     => IndexOf(call.value.init) < context.imported_global_count
  /\ ( /\ OffsetAccepted
       /\ call.op = "ElementSegment"
       /\ IsOne(Value(call.value.offset), "GlobalGet") )
     => IndexOf(Value(call.value.offset)) < context.imported_global_count
  /\ ( /\ OffsetAccepted
       /\ call.op = "DataSegment"
       /\ IsOne(Value(call.value.offset), "GlobalGet") )
     => IndexOf(Value(call.value.offset)) < Len(context.globals)

(***************************************************************************)
(* C6, as the code has it.  The bound on global.get i is the one the       *)
(* caller passes, whatever the kind: Validate(ConstantExpression) accepts  *)
(* global.get i only if i < max_global_index; the initializer of a global  *)
(* passes imported_global_count; the offsets of element segments (kind     *)
(* GlobalInit) and of data segments (kind Other) pass globals.size().      *)
(***************************************************************************)
C6_GlobalGetBelowCallersBound ==
  /\ ( /\ call.op = "ConstantExpression"
       /\ IsOne(call.value.expression, "GlobalGet")
       /\ returned )
     => IndexOf(call.value.expression) < call.value.max_global_index
  /\ ( /\ call.op = "Global"
       /\ IsOne(call.value.init, "GlobalGet")
       /\ returned )
     => IndexOf(call.value.init) < context.imported_global_count
  /\ ( /\ OffsetAccepted
       /\ IsOne(Value(call.value.offset), "GlobalGet") )
     => IndexOf(Value(call.value.offset)) < Len(context.globals)

\* The offset of an active element segment is a global.get of a global the
\* module defines, and the segment is valid.
C6_Witness ==
  /\ call.op = "ElementSegment"
  /\ has_value(call.value.offset)
  /\ IsOne(Value(call.value.offset), "GlobalGet")
  /\ IndexOf(Value(call.value.offset)) >= context.imported_global_count
  /\ returned
  /\ Messages(context) = {}

(***************************************************************************)
(* C7.  The module has no imported global, its global 0 is a mutable i32   *)
(* global and a later global is initialized by global.get 0.               *)
(***************************************************************************)
DefinedMutableGlobalRead ==
  /\ call.op = "Global"
  /\ call.value.init = Expr(GlobalGet(0))
  /\ context.imported_global_count = 0
  /\ Len(context.globals) >= 2
  /\ context.globals[1] = [valtype |-> "I32", mut |-> "Var"]

\* The same with global 0 imported.
ImportedMutableGlobalRead ==
  /\ call.op = "Global"
  /\ call.value.init = Expr(GlobalGet(0))
  /\ context.imported_global_count >= 1
  /\ context.globals[1] = [valtype |-> "I32", mut |-> "Var"]

\* As claimed: validating the later global reports that a constant
\* expression cannot contain a mutable global.
C7_DefinedMutableGlobalReported ==
  DefinedMutableGlobalRead => Reported(MutableGlobalInConstExpr)

(***************************************************************************)
(* C7, as the code has it.  A global the module defines is out of the      *)
(* range of a global initializer, so validating the later global returns   *)
(* false with an invalid global index as its only error; the error of a    *)
(* mutable global in a constant expression is reported when global 0 is an *)
(* imported mutable i32 global.                                            *)
(***************************************************************************)
C7_DefinedGlobalOutOfRange ==
  /\ DefinedMutableGlobalRead =>
       /\ ~returned
       /\ ~valid
       /\ Messages(context) = {"Invalid global index"}
  /\ ImportedMutableGlobalRead =>
       /\ ~returned
       /\ ~valid
       /\ Reported(MutableGlobalInConstExpr)

C7_Witness ==
  /\ DefinedMutableGlobalRead
  /\ call.value.global_type.valtype = "I32"
  /\ Len(context.globals) = 2
  /\ ~returned
  /\ ~Reported(MutableGlobalInConstExpr)

(***************************************************************************)
(* C8.  A second or later memory, imported or defined, gets the error of   *)
(* too many memories when the multi-memory feature is disabled and does    *)
(* not get it when the feature is enabled.                                 *)
(***************************************************************************)
C8_SecondMemoryNeedsMultiMemory ==
  ( /\ \/ call.op = "Memory"
       \/ call.op = "Import" /\ call.value.kind = "Memory"
    /\ Len(context.memories) > 1 )
  => (Reported(TooManyMemories) <=> "multi_memory" \notin context.features)

(***************************************************************************)
(* C9.  Validate(MemoryType) returns true for a shared memory type only if *)
(* the threads feature is enabled and the limits have a maximum.           *)
(***************************************************************************)
C9_SharedNeedsThreadsAndMaximum ==
  ( /\ call.op = "MemoryType"
    /\ call.value.limits.shared
    /\ returned )
  => /\ threads_enabled(context.features)
     /\ has_value(call.value.limits.max)

(***************************************************************************)
(* C10.  The function a start section names, when its index is in range,   *)
(* and whether the type index that function carries is in range.           *)
(***************************************************************************)
StartFunction == context.functions[call.value.func_index + 1]
StartTypeKnown == StartFunction.type_index < Len(context.types)
StartType == context.types[StartFunction.type_index + 1].type

\* As claimed: Validate(Start) returns true only if the function index is
\* less than functions.size() and the function's type has no parameter and
\* no result, also when the function's type index is out of range.
C10_StartTypeAlwaysChecked ==
  (call.op = "Start" /\ returned) =>
    /\ call.value.func_index < Len(context.functions)
    /\ StartTypeKnown
    /\ Len(StartType.param_types) = 0
    /\ Len(StartType.result_types) = 0

(***************************************************************************)
(* C10, as the code has it.  Validate(Start) returns true only if the      *)
(* function index is less than functions.size() and, when the function's   *)
(* type index is in range of the types, that type has no parameter and no  *)
(* result; a function whose type index is out of range is accepted as the  *)
(* start function.                                                         *)
(***************************************************************************)
C10_StartTypeCheckedWhenKnown ==
  (call.op = "Start" /\ returned) =>
    /\ call.value.func_index < Len(context.functions)
    /\ StartTypeKnown =>
         /\ Len(StartType.param_types) = 0
         /\ Len(StartType.result_types) = 0

\* A start function whose type index is out of range, accepted.
C10_Witness ==
  /\ call.op = "Start"
  /\ returned
  /\ call.value.func_index < Len(context.functions)
  /\ ~StartTypeKnown
  /\ Len(context.types) > 0

(***************************************************************************)
(* C11.  Exports and the start section declare functions: the function     *)
(* index a valid function export names, and the one a valid start section  *)
(* names, is in declared_functions after the call, so that at EndModule a  *)
(* deferred ref.func of that index gets no undeclared-function-reference   *)
(* error.                                                                  *)
(***************************************************************************)
C11_ExportsAndStartDeclareFunctions ==
  /\ ( /\ call.op = "Export"
       /\ call.value.kind = "Function"
       /\ returned )
     => call.value.index \in context.declared_functions
  /\ ( /\ call.op = "Start"
       /\ returned )
     => call.value.func_index \in context.declared_functions

(***************************************************************************)
(* C12.  When the module has a data-count section, Validate(Module)        *)
(* returns true only if the number of data segments of the module equals   *)
(* declared_data_count.                                                    *)
(***************************************************************************)
C12_DataCountMatchesSegments ==
  ( /\ pc = "done"
    /\ valid
    /\ has_value(context.declared_data_count) )
  => data_segments = Value(context.declared_data_count)

(***************************************************************************)
(* Tables, defined and imported, validated on one context.                 *)
(***************************************************************************)
TableCall(values) ==
  /\ Idle
  /\ Entities < MaxLen
  /\ \E value \in values :
       Direct("Table", value, ValidateTable(value, Fresh))

SomeTableTypes == [limits : {NoLimits, SharedLimits}, elemtype : ReferenceType]

SomeTables == [table_type : SomeTableTypes]
SomeTableImports ==
  {[kind |-> "Table", table_type |-> t] : t \in SomeTableTypes}

NextTable ==
  \/ TableCall(SomeTables)
  \/ ImportCall(SomeTableImports)
  \/ Return

SpecTable == InitWith({"reference_types"}) /\ [][NextTable]_vars

TooManyTables == "Too many tables, must be 1 or fewer"

\* The last call validated a table, defined or imported.
TableValidated ==
  \/ call.op = "Table"
  \/ call.op = "Import" /\ call.value.kind = "Table"

(***************************************************************************)
(* C13.  A table, defined or imported, gets the error of too many tables,  *)
(* and is rejected, if and only if the reference-types feature is disabled *)
(* and the context held a table already, imported or defined; with the     *)
(* feature enabled no table gets that error.                               *)
(***************************************************************************)
C13_SecondTableNeedsReferenceTypes ==
  TableValidated =>
    /\ Len(context.tables) = Len(before.tables) + 1
    /\ Reported(TooManyTables) <=>
         /\ Len(before.tables) >= 1
         /\ ~reference_types_enabled(context.features)
    /\ Reported(TooManyTables) => ~returned

\* A second table, valid in itself, rejected for the count alone.
C13_Witness ==
  /\ call.op = "Table"
  /\ Len(before.tables) = 1
  /\ ~reference_types_enabled(context.features)
  /\ ~returned
  /\ Messages(context) = {TooManyTables}

(***************************************************************************)
(* Limits, validated against a bound directly and as the limits of a       *)
(* memory type and of a table type.                                        *)
(***************************************************************************)
LimitsCall(values, bounds) ==
  /\ Idle
  /\ \E value \in values, max \in bounds :
       Direct("Limits", [limits |-> value, max |-> max],
              ValidateLimits(value, max, Fresh))

TableTypeCall(values) ==
  /\ Idle
  /\ \E value \in values :
       Direct("TableType", value, ValidateTableType(value, Fresh))

\* The bounds that the validators of memory and table types pass.
LimitBounds == {kMaxPages, kMaxElements}

NextLimits ==
  \/ LimitsCall(Limits, LimitBounds)
  \/ MemoryTypeCall(MemoryTypes)
  \/ TableTypeCall(TableTypes)
  \/ Return

SpecLimits == InitWith({"threads"}) /\ [][NextLimits]_vars

\* The three conditions on limits and a bound, and the error of each.
MinAboveBound(limits, bound) == limits.min > bound
MaxAboveBound(limits, bound) == has_value(limits.max) /\ Value(limits.max) > bound
MinAboveMax(limits) == has_value(limits.max) /\ limits.min > Value(limits.max)

\* The errors reported under the breadcrumb desc by the last call.
ErrorsUnder(desc) ==
  {i \in 1 .. Len(context.errors.reported) :
     desc \in Range(context.errors.reported[i].path)}

\* The last call reported message under the breadcrumb desc.
ReportedUnder(desc, message) ==
  \E i \in ErrorsUnder(desc) : context.errors.reported[i].message = message

\* What the last call reported about limits validated against bound.
LimitsReportedFor(limits, bound) ==
  /\ ReportedUnder("limits", "Expected minimum to be <= bound")
       <=> MinAboveBound(limits, bound)
  /\ ReportedUnder("limits", "Expected maximum to be <= bound")
       <=> MaxAboveBound(limits, bound)
  /\ ReportedUnder("limits", "Expected minimum to be <= maximum")
       <=> MinAboveMax(limits)
  /\ Cardinality(ErrorsUnder("limits")) =
       Cardinality({c \in {1, 2, 3} :
         \/ c = 1 /\ MinAboveBound(limits, bound)
         \/ c = 2 /\ MaxAboveBound(limits, bound)
         \/ c = 3 /\ MinAboveMax(limits)})

(***************************************************************************)
(* C14.  Validate(Limits, bound) returns true if and only if min <= bound  *)
(* and, when there is a maximum, max <= bound and min <= max; each of the  *)
(* three conditions that is violated is reported as one error of the same  *)
(* call, and no other error is.  A memory type has its limits validated    *)
(* against kMaxPages, a table type against kMaxElements.                   *)
(***************************************************************************)
C14_LimitsWithinBound ==
  /\ call.op = "Limits" =>
       /\ returned <=>
            /\ ~MinAboveBound(call.value.limits, call.value.max)
            /\ ~MaxAboveBound(call.value.limits, call.value.max)
            /\ ~MinAboveMax(call.value.limits)
       /\ LimitsReportedFor(call.value.limits, call.value.max)
       /\ Cardinality(ErrorsUnder("limits")) = Len(context.errors.reported)
  /\ call.op = "MemoryType" =>
       /\ LimitsReportedFor(call.value.limits, kMaxPages)
       /\ returned => ErrorsUnder("limits") = {}
  /\ call.op = "TableType" =>
       /\ LimitsReportedFor(call.value.limits, kMaxElements)
       /\ returned => ErrorsUnder("limits") = {}

\* Limits that violate the three conditions at once: three errors.
C14_Witness ==
  /\ call.op = "Limits"
  /\ call.value.max = kMaxPages
  /\ MinAboveBound(call.value.limits, kMaxPages)
  /\ MaxAboveBound(call.value.limits, kMaxPages)
  /\ MinAboveMax(call.value.limits)
  /\ ~returned
  /\ Len(context.errors.reported) = 3

(***************************************************************************)
(* Passive element segments, in index-list and in expression-list form,    *)
(* validated on a context that holds imports of every kind.                *)
(***************************************************************************)
ElementImports ==
  {[kind |-> "Function", index |-> 0],
   [kind |-> "Table", table_type |-> [limits |-> NoLimits, elemtype |-> "funcref"]],
   [kind |-> "Memory", memory_type |-> [limits |-> NoLimits]],
   [kind |-> "Global", global_type |-> [valtype |-> "I32", mut |-> "Const"]],
   [kind |-> "Event", event_type |-> [type_index |-> 0]]}

ElementInstructions ==
  {RefNull(t) : t \in ReferenceType} \cup {RefFunc(i) : i \in Index}
    \cup {Const("I32Const")}

ElementLists ==
  IndexElements(SeqOf(Index, 0, 2))
    \cup ExpressionElements(
           {<< [instructions |-> l] >> : l \in SeqOf(ElementInstructions, 0, 2)}
             \cup {<< Expr(i), Expr(j) >> : i, j \in ElementInstructions})

\* Passive segments only: no offset expression is drawn.
PassiveElementSegments == ElementSegmentsOf({}, ElementLists)

NextElement ==
  \/ ImportCall(ElementImports)
  \/ ElementSegmentCall(PassiveElementSegments)
  \/ Return

SpecElement == InitWith({"reference_types"}) /\ [][NextElement]_vars

\* The last call validated a passive element segment in index-list form.
IndexSegmentValidated ==
  /\ call.op = "ElementSegment"
  /\ has_indexes(call.value)
  /\ ~has_value(call.value.table_index)
  /\ ~has_value(call.value.offset)

(***************************************************************************)
(* C15.  An element segment in index-list form is valid only if every      *)
(* listed index is less than the size of the context list of the list's    *)
(* external kind (and, the segment being passive, if every one is); every  *)
(* index of a function-kind list is in declared_functions after the call,  *)
(* the indices that are out of range too, and a list of another kind       *)
(* declares nothing.                                                       *)
(***************************************************************************)
C15_IndexListInRangeAndDeclared ==
  IndexSegmentValidated =>
    LET elements == call.value.elements
    IN  /\ returned <=>
             \A index \in Range(elements.list) :
               index < ElementMaxIndex(elements.kind, context)
        /\ ElementMaxIndex(elements.kind, context) =
             ElementMaxIndex(elements.kind, before)
        /\ context.declared_functions =
             IF elements.kind = "Function"
               THEN before.declared_functions \cup Range(elements.list)
               ELSE before.declared_functions

\* A function-kind list with an index out of range: the segment is not
\* valid and the index is declared.
C15_Witness ==
  /\ IndexSegmentValidated
  /\ call.value.elements.kind = "Function"
  /\ Len(context.functions) = 1
  /\ call.value.elements.list = << 0, 1 >>
  /\ ~returned
  /\ context.declared_functions = {0, 1}

\* The last call validated a passive element segment whose list is one
\* element expression of one instruction.
ExpressionSegmentValidated ==
  /\ call.op = "ElementSegment"
  /\ has_expressions(call.value)
  /\ ~has_value(call.value.table_index)
  /\ ~has_value(call.value.offset)
  /\ Len(call.value.elements.list) = 1
  /\ Len(call.value.elements.list[1].instructions) = 1

ElementInstruction == call.value.elements.list[1].instructions[1]

(***************************************************************************)
(* C17.  In an expression-list element segment an element expression that  *)
(* is a single ref.null t is accepted exactly when t is the segment's      *)
(* element type, and one that is a single ref.func i exactly when          *)
(* i < functions.size() and the element type is funcref.                   *)
(***************************************************************************)
C17_ElementExpressionOfElementType ==
  ExpressionSegmentValidated =>
    /\ ElementInstruction.opcode = "RefNull" =>
         (returned <=> ElementInstruction.reftype = call.value.elements.elemtype)
    /\ ElementInstruction.opcode = "RefFunc" =>
         (returned <=> /\ ElementInstruction.index < Len(context.functions)
                       /\ call.value.elements.elemtype = "funcref")

MutableGlobalImported == "Mutable globals cannot be imported"
MutableGlobalExported == "Mutable globals cannot be exported"

\* The last call validated the export of a global whose index is in range.
GlobalExported ==
  /\ call.op = "Export"
  /\ call.value.kind = "Global"
  /\ call.value.index < Len(context.globals)

ExportedGlobal == context.globals[call.value.index + 1]

EventCall(values) ==
  /\ Idle
  /\ Entities < MaxLen
  /\ \E value \in values :
       Direct("Event", value, ValidateEvent(value, Fresh))

DataCountCall(values) ==
  /\ Idle
  /\ \E value \in values :
       Direct("DataCount", value, ValidateDataCount(value, Fresh))

EndModuleCall ==
  /\ Idle
  /\ Direct("EndModule", << >>, EndModule(Fresh))

EntityImports ==
  {[kind |-> "Function", index |-> 0],
   [kind |-> "Global", global_type |-> [valtype |-> "I32", mut |-> "Var"]],
   [kind |-> "Table", table_type |-> [limits |-> SharedLimits, elemtype |-> "funcref"]],
   [kind |-> "Memory", memory_type |-> [limits |-> NoLimits]],
   [kind |-> "Event", event_type |-> [type_index |-> 0]]}

EntityExports ==
  {[kind |-> "Function", name |-> "a", index |-> 0],
   [kind |-> "Global", name |-> "a", index |-> 1]}

EntityExpressions ==
  {Expr(i) : i \in {Const("I32Const"), Const("Nop"), GlobalGet(0), RefFunc(0)}}
    \cup {[instructions |-> << >>]}

EntityTables == {[table_type |-> [limits |-> NoLimits, elemtype |-> "funcref"]]}
EntityMemories == {[memory_type |-> [limits |-> SharedLimits]]}
EntityDataCounts == {[count |-> 0]}

NextEntities ==
  \/ TypeEntryCall(ModuleTypes)
  \/ ImportCall(EntityImports)
  \/ FunctionCall(ModuleFunctions)
  \/ TableCall(EntityTables)
  \/ MemoryCall(EntityMemories)
  \/ GlobalCall(ModuleGlobals)
  \/ EventCall(ModuleEvents)
  \/ ExportCall(EntityExports)
  \/ StartCall(ModuleStarts)
  \/ ElementSegmentCall(ModuleElementSegments)
  \/ DataCountCall(EntityDataCounts)
  \/ DataSegmentCall(ModuleDataSegments)
  \/ ConstantExpressionCall(EntityExpressions)
  \/ EndModuleCall
  \/ Return

SpecEntities == InitWith({"mutable_globals"}) /\ [][NextEntities]_vars

(***************************************************************************)
(* C18.  Every call of a validator of a type entry, import, function,      *)
(* table, memory, global, export, start, event, element segment, data      *)
(* segment, data count or constant expression, and of EndModule, returns   *)
(* false if and only if it reported at least one error during the call.    *)
(***************************************************************************)
C18_FalseIffErrorReported ==
  call # NoCall => (~returned <=> Len(context.errors.reported) > 0)

\* An export rejected with two errors, one for its name and one for its
\* index.
C18_Witness ==
  /\ call.op = "Export"
  /\ ~returned
  /\ Len(context.errors.reported) = 2
  /\ Reported(DuplicateExport)

\* The lists of entities of the Context.
EntityLists ==
  {"types", "functions", "tables", "memories", "globals", "events",
   "element_segments"}

\* The list the last call appends to, "none" when it validates no entity.
ListOf(c) ==
  CASE c.op = "TypeEntry" -> "types"
    [] c.op = "Function" -> "functions"
    [] c.op = "Table" -> "tables"
    [] c.op = "Memory" -> "memories"
    [] c.op = "Global" -> "globals"
    [] c.op = "Event" -> "events"
    [] c.op = "ElementSegment" -> "element_segments"
    [] c.op = "Import" ->
         (CASE c.value.kind = "Function" -> "functions"
            [] c.value.kind = "Table" -> "tables"
            [] c.value.kind = "Memory" -> "memories"
            [] c.value.kind = "Global" -> "globals"
            [] c.value.kind = "Event" -> "events")
    [] OTHER -> "none"

\* The entry the last call appends, for a call that validates an entity.
EntryOf(c) ==
  CASE c.op = "TypeEntry" -> c.value
    [] c.op = "Function" -> c.value
    [] c.op = "Table" -> c.value.table_type
    [] c.op = "Memory" -> c.value.memory_type
    [] c.op = "Global" -> c.value.global_type
    [] c.op = "Event" -> c.value.event_type
    [] c.op = "ElementSegment" -> elemtype(c.value)
    [] c.op = "Import" ->
         (CASE c.value.kind = "Function" -> [type_index |-> c.value.index]
            [] c.value.kind = "Table" -> c.value.table_type
            [] c.value.kind = "Memory" -> c.value.memory_type
            [] c.value.kind = "Global" -> c.value.global_type
            [] c.value.kind = "Event" -> c.value.event_type)

(***************************************************************************)
(* C19.  A Validate call on a type entry, function, table, memory, global, *)
(* event or element segment, or on the import of one, appends exactly one  *)
(* entry, the entity's, to the context list of its kind, valid or not,     *)
(* and leaves the entries appended before and the other lists as they      *)
(* were; the other calls change no list.  So each list's length is the     *)
(* number of entities of its kind validated so far, imports included.      *)
(***************************************************************************)
C19_EntityListsAppendOnly ==
  \A list \in EntityLists :
    context[list] =
      IF call # NoCall /\ ListOf(call) = list
        THEN Append(before[list], EntryOf(call))
        ELSE before[list]

\* A function whose type index is out of range, appended after an imported
\* function.
C19_Witness ==
  /\ call.op = "Function"
  /\ ~returned
  /\ Len(before.functions) = 1
  /\ before.imported_function_count = 1
  /\ Len(context.functions) = 2
  /\ context.functions[2] = call.value

\* The last call validated the import of an entity of kind.
Imported(kind) == call.op = "Import" /\ call.value.kind = kind

(***************************************************************************)
(* C20.  During Validate(Module) imported_function_count <= functions.size() *)
(* and imported_global_count <= globals.size().  Until the import section  *)
(* is done every function and every global of the context is an imported   *)
(* one: the import of a function or of a global appends its entry and      *)
(* counts it, so the counts are the sizes of the lists.  No other call     *)
(* changes a count or an entry below it, so from then on the first         *)
(* imported_function_count functions and the first imported_global_count   *)
(* globals are the imported ones in import order.                          *)
(***************************************************************************)
C20_ImportedEntitiesFirst ==
  /\ context.imported_function_count <= Len(context.functions)
  /\ context.imported_global_count <= Len(context.globals)
  /\ pc \in {"idle", "types", "imports"} =>
       /\ context.imported_function_count = Len(context.functions)
       /\ context.imported_global_count = Len(context.globals)
  /\ context.imported_function_count =
       before.imported_function_count + (IF Imported("Function") THEN 1 ELSE 0)
  /\ context.imported_global_count =
       before.imported_global_count + (IF Imported("Global") THEN 1 ELSE 0)
  /\ Imported("Function") =>
       context.functions =
         Append(before.functions, [type_index |-> call.value.index])
  /\ Imported("Global") =>
       context.globals = Append(before.globals, call.value.global_type)
  /\ Imported("Function") \/ Imported("Global") => pc = "imports"
  /\ SubSeq(context.functions, 1, before.imported_function_count) =
       SubSeq(before.functions, 1, before.imported_function_count)
  /\ SubSeq(context.globals, 1, before.imported_global_count) =
       SubSeq(before.globals, 1, before.imported_global_count)

\* A function of the function section, appended after an imported function
\* and an imported global.
C20_Witness ==
  /\ pc = "functions"
  /\ call.op = "Function"
  /\ context.imported_function_count = 1
  /\ context.imported_global_count = 1
  /\ Len(context.functions) = 2
  /\ Len(context.globals) = 1
  /\ context.functions[1] = [type_index |-> 0]

\* The breadcrumb that the validator of the last call pushes.
BreadcrumbOf(c) ==
  CASE c.op = "TypeEntry" -> "type entry"
    [] c.op = "Import" -> "import"
    [] c.op = "Function" -> "function"
    [] c.op = "Table" -> "table"
    [] c.op = "Memory" -> "memory"
    [] c.op = "Global" -> "global"
    [] c.op = "Event" -> "event"
    [] c.op = "Export" -> "export"
    [] c.op = "Start" -> "start"
    [] c.op = "ElementSegment" -> "element segment"
    [] c.op = "DataSegment" -> "data segment"
    [] c.op = "ConstantExpression" -> "constant_expression"
    [] OTHER -> "none"

\* The breadcrumbs of the validators that call the validator pushing desc.
EnclosedBy(desc) ==
  CASE desc = "function type" -> {"type entry"}
    [] desc \in {"function", "table", "memory", "event"} -> {"import"}
    [] desc = "table type" -> {"table"}
    [] desc = "memory type" -> {"memory"}
    [] desc = "limits" -> {"table type", "memory type"}
    [] desc = "event type" -> {"event"}
    [] desc = "constant_expression" ->
         {"global", "element segment", "data segment"}
    [] desc = "element expression" -> {"element segment"}
    [] OTHER -> {}

\* The validator that reports message itself, by its breadcrumb, for the
\* errors of one validator only.
ReportedBy(message) ==
  CASE message \in {"A constant expression must be a single instruction",
                    "A constant expression cannot contain a mutable global",
                    "Invalid instruction in constant expression",
                    "Invalid global index", "Expected value type"} ->
         {"constant_expression", "export"}
    [] message = "Tables cannot be shared" -> {"table type"}
    [] message = "Memories cannot be shared" -> {"memory type"}
    [] message = "Expected result type count of 0 or 1" -> {"function type"}
    [] message = "Invalid event type index" -> {"event type"}
    [] message = "Invalid function type index" -> {"function"}
    [] message = TooManyTables -> {"table"}
    [] message = TooManyMemories -> {"memory"}
    [] OTHER -> {"constant_expression", "element expression", "element segment",
                 "data segment", "export", "start", "import", "event type"}

\* An error was reported under the breadcrumb of the last call's entity and,
\* below it, under those of the validators called for it, down to the one
\* that reported it.
UnderItsEntities(error) ==
  /\ Len(error.path) >= 1
  /\ error.path[1] = BreadcrumbOf(call)
  /\ \A k \in 2 .. Len(error.path) :
       error.path[k - 1] \in EnclosedBy(error.path[k])
  /\ error.path[Len(error.path)] \in ReportedBy(error.message)

(***************************************************************************)
(* C21.  The breadcrumb stack of the error sink is balanced: after every   *)
(* call, the calls that return early on an error included, the stack is    *)
(* the stack the call was made on; and every error that the validator of   *)
(* an entity reports has, as the breadcrumbs it was reported under, that   *)
(* of the entity first, then those of the validators called for it in the  *)
(* order of the calls, down to the validator that reported the error.      *)
(***************************************************************************)
C21_BreadcrumbsBalanced ==
  /\ context.errors.stack = before.errors.stack
  /\ context.errors.stack = << >>
  /\ (call # NoCall /\ BreadcrumbOf(call) # "none") =>
       \A i \in 1 .. Len(context.errors.reported) :
         UnderItsEntities(context.errors.reported[i])

\* A global whose initializer returns early on an index out of range: the
\* error was reported under both breadcrumbs and both were popped.
C21_Witness ==
  /\ call.op = "Global"
  /\ ~returned
  /\ context.errors.reported =
       << [message |-> "Invalid global index",
           path |-> << "global", "constant_expression" >>] >>
  /\ context.errors.stack = << >>

=============================================================================
